---- MODULE Spec2Model ----
(***************************************************************************)
(* Model of main.go: the file path scanner.  One main goroutine           *)
(* (argument validation, CSV set-up, the batch-writing consumer loop, the *)
(* shutdown of the spinner and the final report), one producer goroutine  *)
(* (filepath.WalkDir pushing paths into pathChan) and one spinner         *)
(* goroutine (polling fileCount).                                         *)
(***************************************************************************)
EXTENDS Integers, Sequences, FiniteSets, TLC

\* ------------------------------------------------------------------ bounds
\* Longest listing WalkDir hands to the callback (entries of the tree).
MaxEntries == 3
\* Largest batch_size given on the command line (the default is also used).
MaxBatch == 2
\* Capacity of pathChan in the model; main.go:63 uses 1000.
SinkCap == 2
\* Spinner renders at most this many progress lines (the loop is unbounded).
MaxTicks == 1

\* --------------------------------------------------------- program constants
defaultBatchSize == 100
NumSpinChars == 10

\* ------------------------------------------------------------------- state
VARIABLES
    osArgs,     \* os.Args: <<prog>>, <<prog, dir>> or <<prog, dir, batch_size>>
    batchSize,  \* batchSize
    mpc,        \* position of the main goroutine
    exitCode,   \* -1 while the process runs, else the exit code (0 or 1)
    file,       \* rows of file_paths.csv on disk; NoFile when it does not exist
    wbuf,       \* rows buffered in the csv.Writer, not yet flushed
    stderr,     \* messages printed to standard error
    stdout,     \* summary lines printed to standard output
    display,    \* the progress line currently shown on the terminal
    pathChan,   \* buffered contents of pathChan
    closed,     \* pathChan has been closed
    fileCount,  \* the atomic counter fileCount
    scanErr,    \* scanErr
    wg,         \* the WaitGroup counter
    batch,      \* batch
    spc,        \* position of the spinner goroutine
    spi,        \* the spinner's i
    tpc,        \* position of the producer goroutine
    walk,       \* the listing WalkDir visits, in order
    ti,         \* index in walk of the next entry the callback gets
    pushed,     \* history: the paths sent on pathChan, in order
    ioFailed    \* history: the write to the file that failed, or NoFailure

vars == <<osArgs, batchSize, mpc, exitCode, file, wbuf, stderr, stdout, display,
          pathChan, closed, fileCount, scanErr, wg, batch, spc, spi, tpc, walk,
          ti, pushed, ioFailed>>

mainVars == <<osArgs, batchSize, mpc, exitCode, file, wbuf, stderr, stdout, batch,
              ioFailed>>
chanVars == <<pathChan, closed, pushed>>
spinVars == <<spc, spi, display>>
walkVars == <<tpc, walk, ti, scanErr>>

\* ----------------------------------------------------------------- helpers
Running == exitCode = 0 - 1

\* The content of a file that does not exist (no row looks like this).
NoFile == << <<"<absent>">> >>
NoFailure == "<none>"
Nil == "<nil>"
NoLine == "<no progress line>"
Cleared == "<cleared>"

\* The header record of main.go:56.
Header == <<"file_path", "path_length">>
\* A file_paths.csv left by an earlier run.
OldFile == <<Header, <<"/old/file", "9">>>>

DigitChars == <<"0", "1", "2", "3", "4", "5", "6", "7", "8", "9">>

\* strconv.Itoa on a non-negative integer: its decimal digits.
RECURSIVE Itoa(_)
Itoa(n) == IF n < 10 THEN DigitChars[n + 1]
           ELSE Itoa(n \div 10) \o DigitChars[(n % 10) + 1]

DigitValue(c) == CHOOSE d \in 0..9 : DigitChars[d + 1] = c
IsDigit(c) == \E d \in 0..9 : DigitChars[d + 1] = c

\* strconv.Atoi on a sequence of characters: <<ok, value>>.  An optional sign,
\* then one or more decimal digits; anything else is a syntax error.
RECURSIVE DigitsValue(_, _)
DigitsValue(cs, acc) ==
    IF cs = <<>> THEN acc
    ELSE DigitsValue(Tail(cs), 10 * acc + DigitValue(Head(cs)))

Atoi(cs) ==
    LET signed == cs # <<>> /\ Head(cs) \in {"+", "-"}
        digits == IF signed THEN Tail(cs) ELSE cs
        okay   == digits # <<>> /\ \A i \in 1..Len(digits) : IsDigit(digits[i])
        mag    == IF okay THEN DigitsValue(digits, 0) ELSE 0
    IN  <<okay, IF signed /\ Head(cs) = "-" THEN 0 - mag ELSE mag>>

\* The characters of the decimal form of n, as a command-line argument.
RECURSIVE DigitSeq(_)
DigitSeq(n) == IF n < 10 THEN <<DigitChars[n + 1]>>
               ELSE Append(DigitSeq(n \div 10), DigitChars[(n % 10) + 1])

\* The batch_size arguments tried: every value 1..MaxBatch, and arguments the
\* program must reject.
BatchArgs == {DigitSeq(n) : n \in 0..MaxBatch}
             \cup {<<"-", "1">>, <<"a">>, <<"2", "x">>, <<>>}

ArgLists == {<<"prog">>, <<"prog", "dir">>}
            \cup {<<"prog", "dir", b>> : b \in BatchArgs}

\* The path WalkDir reports for its i-th entry: the root for i = 0, then
\* distinct paths below it.
RECURSIVE PathAt(_)
PathAt(i) == IF i = 0 THEN "/tmp/a" ELSE PathAt(i - 1) \o "/f"

\* The error WalkDir hands to the callback at entry i.
ErrAt(i) == "error at " \o PathAt(i)

Kinds == {"file", "dir", "err"}
\* Every listing of at most MaxEntries entries.  An "err" entry is one whose
\* callback gets a non-nil err; entries after it are what the walk would
\* visit if it went on.
Walks == UNION {[1..n -> Kinds] : n \in 0..MaxEntries}

\* The record the consumer builds from a path (main.go:110-111).
Record(path) == <<path, Itoa(Len(path))>>

\* The data rows of a CSV file: all rows after the header.
DataRows(f) == IF f = NoFile \/ f = <<>> THEN <<>> ELSE Tail(f)

Last(s) == s[Len(s)]

\* The paths of the "file" entries among the first n entries of w.
RECURSIVE FilePaths(_, _)
FilePaths(w, n) ==
    IF n = 0 THEN <<>>
    ELSE IF w[n] = "file" THEN Append(FilePaths(w, n - 1), PathAt(n))
         ELSE FilePaths(w, n - 1)

\* Index of the first "err" entry of w, or Len(w) + 1.
FirstErr(w) ==
    IF \E i \in 1..Len(w) : w[i] = "err"
    THEN CHOOSE i \in 1..Len(w) : w[i] = "err" /\ \A j \in 1..(i - 1) : w[j] # "err"
    ELSE Len(w) + 1

Prefix(s, k) == SubSeq(s, 1, k)

\* -------------------------------------------------------------------- Init
Init ==
    /\ osArgs \in ArgLists
    /\ batchSize = defaultBatchSize
    /\ mpc = "args"
    /\ exitCode = 0 - 1
    /\ file \in {NoFile, OldFile}
    /\ wbuf = <<>>
    /\ stderr = <<>>
    /\ stdout = <<>>
    /\ display = NoLine
    /\ pathChan = <<>>
    /\ closed = FALSE
    /\ fileCount = 0
    /\ scanErr = Nil
    /\ wg = 0
    /\ batch = <<>>
    /\ spc = "idle"
    /\ spi = 0
    /\ tpc = "idle"
    /\ walk = <<>>
    /\ ti = 1
    /\ pushed = <<>>
    /\ ioFailed = NoFailure

\* os.Exit(1) after a message on standard error.
Fail(msg) ==
    /\ stderr' = Append(stderr, msg)
    /\ exitCode' = 1
    /\ mpc' = "exited"

\* ------------------------------------------------------- main: validation
\* CheckArgs with the test size < 0 in place of size <= 0.
CheckArgs_AcceptZero ==
    /\ Running /\ mpc = "args"
    /\ IF Len(osArgs) < 2
       THEN Fail("usage") /\ UNCHANGED batchSize
       ELSE IF Len(osArgs) >= 3
            THEN LET r == Atoi(osArgs[3])
                 IN  IF ~r[1] \/ r[2] < 0
                     THEN Fail("batch_size must be a positive integer")
                          /\ UNCHANGED batchSize
                     ELSE /\ batchSize' = r[2]
                          /\ mpc' = "stat"
                          /\ UNCHANGED <<stderr, exitCode>>
            ELSE /\ mpc' = "stat"
                 /\ UNCHANGED <<batchSize, stderr, exitCode>>
    /\ UNCHANGED <<osArgs, file, wbuf, stdout, batch, fileCount, wg, ioFailed>>
    /\ UNCHANGED <<chanVars, spinVars, walkVars>>

\* main.go:18-33: the argument count and batch_size.
CheckArgs ==
    /\ Running /\ mpc = "args"
    /\ IF Len(osArgs) < 2
       THEN Fail("usage") /\ UNCHANGED batchSize
       ELSE IF Len(osArgs) >= 3
            THEN LET r == Atoi(osArgs[3])
                 IN  IF ~r[1] \/ r[2] <= 0
                     THEN Fail("batch_size must be a positive integer")
                          /\ UNCHANGED batchSize
                     ELSE /\ batchSize' = r[2]
                          /\ mpc' = "stat"
                          /\ UNCHANGED <<stderr, exitCode>>
            ELSE /\ mpc' = "stat"
                 /\ UNCHANGED <<batchSize, stderr, exitCode>>
    /\ UNCHANGED <<osArgs, file, wbuf, stdout, batch, fileCount, wg, ioFailed>>
    /\ UNCHANGED <<chanVars, spinVars, walkVars>>

\* main.go:36-44: os.Stat(dirPath) and info.IsDir().
StatPath ==
    /\ Running /\ mpc = "stat"
    /\ \E st \in {"noent", "notdir", "dir"} :
         CASE st = "noent"  -> Fail("Error accessing path")
           [] st = "notdir" -> Fail("not a directory")
           [] st = "dir"    -> mpc' = "create" /\ UNCHANGED <<stderr, exitCode>>
    /\ UNCHANGED <<osArgs, batchSize, file, wbuf, stdout, batch, fileCount, wg,
                   ioFailed>>
    /\ UNCHANGED <<chanVars, spinVars, walkVars>>

\* main.go:46-50: os.Create truncates or creates file_paths.csv.
CreateFile ==
    /\ Running /\ mpc = "create"
    /\ \E ok \in BOOLEAN :
         IF ok
         THEN file' = <<>> /\ mpc' = "header" /\ UNCHANGED <<stderr, exitCode>>
         ELSE Fail("Error creating CSV file") /\ UNCHANGED file
    /\ UNCHANGED <<osArgs, batchSize, wbuf, stdout, batch, fileCount, wg, ioFailed>>
    /\ UNCHANGED <<chanVars, spinVars, walkVars>>

\* main.go:53-59: the header goes to the csv.Writer's buffer; a record this
\* short never reaches the file here, so the write cannot fail.
WriteHeader ==
    /\ Running /\ mpc = "header"
    /\ wbuf' = Append(wbuf, Header)
    /\ mpc' = "start"
    /\ UNCHANGED <<osArgs, batchSize, exitCode, file, stderr, stdout, batch,
                   fileCount, wg, ioFailed>>
    /\ UNCHANGED <<chanVars, spinVars, walkVars>>

\* StartGoroutines with wg.Add(2): the producer is counted too, and never
\* calls wg.Done().
StartGoroutines_AddTwo ==
    /\ Running /\ mpc = "start"
    /\ wg' = wg + 2
    /\ spc' = "select"
    /\ tpc' = "walk"
    /\ walk' \in Walks
    /\ mpc' = "recv"
    /\ UNCHANGED <<osArgs, batchSize, exitCode, file, wbuf, stderr, stdout,
                   batch, fileCount, display, spi, ti, scanErr, ioFailed>>
    /\ UNCHANGED chanVars

\* main.go:63-104: make the channels, wg.Add(1), start the spinner and the
\* producer.  The tree the producer will walk is whatever the filesystem
\* holds now.
StartGoroutines ==
    /\ Running /\ mpc = "start"
    /\ wg' = wg + 1
    /\ spc' = "select"
    /\ tpc' = "walk"
    /\ walk' \in Walks
    /\ mpc' = "recv"
    /\ UNCHANGED <<osArgs, batchSize, exitCode, file, wbuf, stderr, stdout,
                   batch, fileCount, display, spi, ti, scanErr, ioFailed>>
    /\ UNCHANGED chanVars

\* ------------------------------------------------------------- the producer
\* main.go:94-103, err == nil and d.IsDir(): nothing is sent.
VisitDir ==
    /\ Running /\ tpc = "walk" /\ ti <= Len(walk) /\ walk[ti] = "dir"
    /\ ti' = ti + 1
    /\ UNCHANGED <<tpc, walk, scanErr, fileCount, wg>>
    /\ UNCHANGED <<mainVars, chanVars, spinVars>>

\* VisitFile with a send that gives up when the buffer is full.
VisitFile_DropWhenFull ==
    /\ Running /\ tpc = "walk" /\ ti <= Len(walk) /\ walk[ti] = "file"
    /\ IF Len(pathChan) < SinkCap
       THEN /\ pathChan' = Append(pathChan, PathAt(ti))
            /\ pushed' = Append(pushed, PathAt(ti))
       ELSE UNCHANGED <<pathChan, pushed>>
    /\ ti' = ti + 1
    /\ UNCHANGED <<tpc, walk, scanErr, closed, fileCount, wg>>
    /\ UNCHANGED <<mainVars, spinVars>>

\* main.go:99-101, err == nil and not a directory: pathChan <- path, which
\* blocks while the buffer is full.
VisitFile ==
    /\ Running /\ tpc = "walk" /\ ti <= Len(walk) /\ walk[ti] = "file"
    /\ Len(pathChan) < SinkCap
    /\ pathChan' = Append(pathChan, PathAt(ti))
    /\ pushed' = Append(pushed, PathAt(ti))
    /\ ti' = ti + 1
    /\ UNCHANGED <<tpc, walk, scanErr, closed, fileCount, wg>>
    /\ UNCHANGED <<mainVars, spinVars>>

\* VisitErr with a callback that returns nil for an entry it could not read.
VisitErr_Swallow ==
    /\ Running /\ tpc = "walk" /\ ti <= Len(walk) /\ walk[ti] = "err"
    /\ ti' = ti + 1
    /\ UNCHANGED <<tpc, walk, scanErr, fileCount, wg>>
    /\ UNCHANGED <<mainVars, chanVars, spinVars>>

\* main.go:94-97: the callback gets err != nil and returns it; WalkDir stops
\* and returns that error, which is assigned to scanErr.
VisitErr ==
    /\ Running /\ tpc = "walk" /\ ti <= Len(walk) /\ walk[ti] = "err"
    /\ scanErr' = ErrAt(ti)
    /\ tpc' = "close"
    /\ UNCHANGED <<walk, ti, fileCount, wg>>
    /\ UNCHANGED <<mainVars, chanVars, spinVars>>

\* main.go:94-103: every entry has been visited; WalkDir returns nil.
WalkDone ==
    /\ Running /\ tpc = "walk" /\ ti > Len(walk)
    /\ scanErr' = Nil
    /\ tpc' = "close"
    /\ UNCHANGED <<walk, ti, fileCount, wg>>
    /\ UNCHANGED <<mainVars, chanVars, spinVars>>

\* CloseSink with the close done only after a walk without error.
CloseSink_OnlyOnSuccess ==
    /\ Running /\ tpc = "close"
    /\ closed' = (scanErr = Nil)
    /\ tpc' = "done"
    /\ UNCHANGED <<walk, ti, scanErr, pathChan, pushed, fileCount, wg>>
    /\ UNCHANGED <<mainVars, spinVars>>

\* main.go:92: defer close(pathChan), run when the goroutine's function ends.
CloseSink ==
    /\ Running /\ tpc = "close"
    /\ closed' = TRUE
    /\ tpc' = "done"
    /\ UNCHANGED <<walk, ti, scanErr, pathChan, pushed, fileCount, wg>>
    /\ UNCHANGED <<mainVars, spinVars>>

\* ------------------------------------------------------------- the consumer
\* Receive with the test len(batch) > batchSize in place of >=.
Receive_OffByOne ==
    /\ Running /\ mpc = "recv" /\ pathChan # <<>>
    /\ pathChan' = Tail(pathChan)
    /\ batch' = Append(batch, Record(Head(pathChan)))
    /\ mpc' = IF Len(batch') > batchSize THEN "write" ELSE "recv"
    /\ UNCHANGED <<osArgs, batchSize, exitCode, file, wbuf, stderr, stdout,
                   closed, pushed, fileCount, wg, ioFailed>>
    /\ UNCHANGED <<spinVars, walkVars>>

\* Receive with the channel read from its newest element, not its oldest.
Receive_Lifo ==
    /\ Running /\ mpc = "recv" /\ pathChan # <<>>
    /\ pathChan' = Prefix(pathChan, Len(pathChan) - 1)
    /\ batch' = Append(batch, Record(Last(pathChan)))
    /\ mpc' = IF Len(batch') >= batchSize THEN "write" ELSE "recv"
    /\ UNCHANGED <<osArgs, batchSize, exitCode, file, wbuf, stderr, stdout,
                   closed, pushed, fileCount, wg, ioFailed>>
    /\ UNCHANGED <<spinVars, walkVars>>

\* main.go:109-113: one iteration of `for path := range pathChan` up to the
\* test of len(batch) >= batchSize.
Receive ==
    /\ Running /\ mpc = "recv" /\ pathChan # <<>>
    /\ pathChan' = Tail(pathChan)
    /\ batch' = Append(batch, Record(Head(pathChan)))
    /\ mpc' = IF Len(batch') >= batchSize THEN "write" ELSE "recv"
    /\ UNCHANGED <<osArgs, batchSize, exitCode, file, wbuf, stderr, stdout,
                   closed, pushed, fileCount, wg, ioFailed>>
    /\ UNCHANGED <<spinVars, walkVars>>

\* EndOfStream without the test len(batch) > 0: WriteAll is always called.
EndOfStream_AlwaysWrite ==
    /\ Running /\ mpc = "recv" /\ pathChan = <<>> /\ closed
    /\ mpc' = "finalwrite"
    /\ UNCHANGED <<osArgs, batchSize, exitCode, file, wbuf, stderr, stdout,
                   batch, fileCount, wg, ioFailed>>
    /\ UNCHANGED <<chanVars, spinVars, walkVars>>

\* EndOfStream that does not wait for the close: the loop ends as soon as
\* the channel is empty.
EndOfStream_OnEmpty ==
    /\ Running /\ mpc = "recv" /\ pathChan = <<>>
    /\ mpc' = IF Len(batch) > 0 THEN "finalwrite" ELSE "stop"
    /\ UNCHANGED <<osArgs, batchSize, exitCode, file, wbuf, stderr, stdout,
                   batch, fileCount, wg, ioFailed>>
    /\ UNCHANGED <<chanVars, spinVars, walkVars>>

\* EndOfStream without the write of the remaining records.
EndOfStream_DropRest ==
    /\ Running /\ mpc = "recv" /\ pathChan = <<>> /\ closed
    /\ mpc' = "stop"
    /\ UNCHANGED <<osArgs, batchSize, exitCode, file, wbuf, stderr, stdout,
                   batch, fileCount, wg, ioFailed>>
    /\ UNCHANGED <<chanVars, spinVars, walkVars>>

\* main.go:109 and 125: the channel is closed and drained, the loop ends; the
\* remaining records are written when there are any.
EndOfStream ==
    /\ Running /\ mpc = "recv" /\ pathChan = <<>> /\ closed
    /\ mpc' = IF Len(batch) > 0 THEN "finalwrite" ELSE "stop"
    /\ UNCHANGED <<osArgs, batchSize, exitCode, file, wbuf, stderr, stdout,
                   batch, fileCount, wg, ioFailed>>
    /\ UNCHANGED <<chanVars, spinVars, walkVars>>

\* writer.WriteAll(batch), first part: every record is handed to the
\* writer's buffer.  Whenever the buffer fills it is written to the file, so
\* any number k of the rows handed over so far may reach the file before the
\* call is over.  A failed write of the buffer ends the call with an error:
\* the caller prints msg and exits.
WriteAllRecords(next, msg) ==
    LET rows == wbuf \o batch
    IN  \E ok \in BOOLEAN :
            IF ok
            THEN /\ \E k \in 0..Len(rows) :
                        /\ file' = file \o Prefix(rows, k)
                        /\ wbuf' = SubSeq(rows, k + 1, Len(rows))
                 /\ mpc' = next
                 /\ UNCHANGED <<stderr, exitCode, ioFailed>>
            ELSE /\ \E k \in 0..(Len(rows) - 1) :
                        file' = file \o Prefix(rows, k)
                 /\ wbuf' = <<>>
                 /\ ioFailed' = "WriteAll"
                 /\ Fail(msg)

\* writer.WriteAll(batch), second part: the final Flush of the buffer.
WriteAllFlush(next, msg) ==
    \E ok \in BOOLEAN :
        IF ok \/ wbuf = <<>>
        THEN /\ file' = file \o wbuf
             /\ wbuf' = <<>>
             /\ mpc' = next
             /\ UNCHANGED <<stderr, exitCode, ioFailed>>
        ELSE /\ \E k \in 0..(Len(wbuf) - 1) :
                    file' = file \o Prefix(wbuf, k)
             /\ wbuf' = <<>>
             /\ ioFailed' = "WriteAll"
             /\ Fail(msg)

\* WriteBatch with the error of WriteAll not looked at: the loop goes on.
WriteBatch_IgnoreError ==
    /\ Running /\ mpc = "write"
    /\ LET rows == wbuf \o batch
       IN  \E ok \in BOOLEAN :
               IF ok
               THEN /\ \E k \in 0..Len(rows) :
                           /\ file' = file \o Prefix(rows, k)
                           /\ wbuf' = SubSeq(rows, k + 1, Len(rows))
                    /\ mpc' = "flush"
                    /\ UNCHANGED ioFailed
               ELSE /\ \E k \in 0..(Len(rows) - 1) :
                           file' = file \o Prefix(rows, k)
                    /\ wbuf' = <<>>
                    /\ ioFailed' = "WriteAll"
                    /\ mpc' = "add"
    /\ UNCHANGED <<osArgs, batchSize, stdout, batch, fileCount, wg, stderr,
                   exitCode>>
    /\ UNCHANGED <<chanVars, spinVars, walkVars>>

\* main.go:114-117: a full batch is handed to WriteAll.
WriteBatch ==
    /\ Running /\ mpc = "write"
    /\ WriteAllRecords("flush", "Error writing batch")
    /\ UNCHANGED <<osArgs, batchSize, stdout, batch, fileCount, wg>>
    /\ UNCHANGED <<chanVars, spinVars, walkVars>>

\* main.go:114-117: WriteAll flushes the full batch and returns.
FlushBatch ==
    /\ Running /\ mpc = "flush"
    /\ WriteAllFlush("add", "Error writing batch")
    /\ UNCHANGED <<osArgs, batchSize, stdout, batch, fileCount, wg>>
    /\ UNCHANGED <<chanVars, spinVars, walkVars>>

\* AddCount without batch = batch[:0].
AddCount_NoReset ==
    /\ Running /\ mpc = "add"
    /\ fileCount' = fileCount + Len(batch)
    /\ mpc' = "recv"
    /\ UNCHANGED <<osArgs, batchSize, exitCode, file, wbuf, stderr, stdout, wg,
                   batch, ioFailed>>
    /\ UNCHANGED <<chanVars, spinVars, walkVars>>

\* AddCount adding one per batch instead of len(batch).
AddCount_PerBatch ==
    /\ Running /\ mpc = "add"
    /\ fileCount' = fileCount + 1
    /\ batch' = <<>>
    /\ mpc' = "recv"
    /\ UNCHANGED <<osArgs, batchSize, exitCode, file, wbuf, stderr, stdout, wg,
                   ioFailed>>
    /\ UNCHANGED <<chanVars, spinVars, walkVars>>

\* main.go:119-120: atomic.AddInt64(&fileCount, len(batch)); batch = batch[:0].
AddCount ==
    /\ Running /\ mpc = "add"
    /\ fileCount' = fileCount + Len(batch)
    /\ batch' = <<>>
    /\ mpc' = "recv"
    /\ UNCHANGED <<osArgs, batchSize, exitCode, file, wbuf, stderr, stdout, wg,
                   ioFailed>>
    /\ UNCHANGED <<chanVars, spinVars, walkVars>>

\* main.go:126-129: the final, partial batch is handed to WriteAll.
FinalWrite ==
    /\ Running /\ mpc = "finalwrite"
    /\ WriteAllRecords("finalflush", "Error writing final batch")
    /\ UNCHANGED <<osArgs, batchSize, stdout, batch, fileCount, wg>>
    /\ UNCHANGED <<chanVars, spinVars, walkVars>>

\* main.go:126-129: WriteAll flushes the final batch and returns.
FinalFlush ==
    /\ Running /\ mpc = "finalflush"
    /\ WriteAllFlush("finaladd", "Error writing final batch")
    /\ UNCHANGED <<osArgs, batchSize, stdout, batch, fileCount, wg>>
    /\ UNCHANGED <<chanVars, spinVars, walkVars>>

\* FinalAdd adding 1 in place of len(batch).
FinalAdd_CountsOne ==
    /\ Running /\ mpc = "finaladd"
    /\ fileCount' = fileCount + 1
    /\ mpc' = "stop"
    /\ UNCHANGED <<osArgs, batchSize, exitCode, file, wbuf, stderr, stdout,
                   batch, wg, ioFailed>>
    /\ UNCHANGED <<chanVars, spinVars, walkVars>>

\* FinalAdd without the atomic.AddInt64.
FinalAdd_Skip ==
    /\ Running /\ mpc = "finaladd"
    /\ mpc' = "stop"
    /\ UNCHANGED <<osArgs, batchSize, exitCode, file, wbuf, stderr, stdout,
                   batch, wg, ioFailed, fileCount>>
    /\ UNCHANGED <<chanVars, spinVars, walkVars>>

\* main.go:130: atomic.AddInt64(&fileCount, len(batch)).
FinalAdd ==
    /\ Running /\ mpc = "finaladd"
    /\ fileCount' = fileCount + Len(batch)
    /\ mpc' = "stop"
    /\ UNCHANGED <<osArgs, batchSize, exitCode, file, wbuf, stderr, stdout,
                   batch, wg, ioFailed>>
    /\ UNCHANGED <<chanVars, spinVars, walkVars>>

\* -------------------------------------------------------------- the spinner
\* The progress line of main.go:82.
ProgressLine(i, count) ==
    "glyph " \o Itoa(i % NumSpinChars) \o " Scanning... " \o Itoa(count)
        \o " files found"

\* SpinnerTick with atomic.SwapInt64(&fileCount, 0) in place of the load.
SpinnerTick_Swap ==
    /\ Running /\ spc = "select" /\ mpc # "sending"
    /\ spi < MaxTicks
    /\ display' = ProgressLine(spi, fileCount)
    /\ fileCount' = 0
    /\ spi' = spi + 1
    /\ spc' = "sleep"
    /\ UNCHANGED wg
    /\ UNCHANGED <<mainVars, chanVars, walkVars>>

\* main.go:79-83: no sender waits on done, so the default case runs: load
\* fileCount, print the progress line, i++.
SpinnerTick ==
    /\ Running /\ spc = "select" /\ mpc # "sending"
    /\ spi < MaxTicks
    /\ display' = ProgressLine(spi, fileCount)
    /\ spi' = spi + 1
    /\ spc' = "sleep"
    /\ UNCHANGED <<fileCount, wg>>
    /\ UNCHANGED <<mainVars, chanVars, walkVars>>

\* main.go:84: time.Sleep returns; back to the select.
SpinnerWake ==
    /\ Running /\ spc = "sleep"
    /\ spc' = "select"
    /\ UNCHANGED <<spi, display, fileCount, wg>>
    /\ UNCHANGED <<mainVars, chanVars, walkVars>>

\* main.go:134: done <- true.  done is unbuffered: main waits for the spinner
\* to receive.
StopSpinner ==
    /\ Running /\ mpc = "stop"
    /\ mpc' = "sending"
    /\ UNCHANGED <<osArgs, batchSize, exitCode, file, wbuf, stderr, stdout,
                   batch, fileCount, wg, ioFailed>>
    /\ UNCHANGED <<chanVars, spinVars, walkVars>>

\* main.go:77-78: the spinner receives from done while main waits in the
\* send; the send completes and the spinner's function returns.
SpinnerStop ==
    /\ Running /\ spc = "select" /\ mpc = "sending"
    /\ spc' = "exiting"
    /\ mpc' = "wait"
    /\ UNCHANGED <<osArgs, batchSize, exitCode, file, wbuf, stderr, stdout,
                   batch, fileCount, wg, spi, display, ioFailed>>
    /\ UNCHANGED <<chanVars, walkVars>>

\* main.go:72: defer wg.Done().
SpinnerReturn ==
    /\ Running /\ spc = "exiting"
    /\ wg' = wg - 1
    /\ spc' = "returned"
    /\ UNCHANGED <<spi, display, fileCount>>
    /\ UNCHANGED <<mainVars, chanVars, walkVars>>

\* ------------------------------------------------------- main: the report
\* WaitSpinner without the wg.Wait().
WaitSpinner_NoWait ==
    /\ Running /\ mpc = "wait"
    /\ display' = Cleared
    /\ mpc' = "report"
    /\ UNCHANGED <<osArgs, batchSize, exitCode, file, wbuf, stderr, stdout,
                   batch, fileCount, wg, spc, spi, ioFailed>>
    /\ UNCHANGED <<chanVars, walkVars>>

\* main.go:135-136: wg.Wait() returns once the counter is zero; the progress
\* line is cleared.
WaitSpinner ==
    /\ Running /\ mpc = "wait" /\ wg = 0
    /\ display' = Cleared
    /\ mpc' = "report"
    /\ UNCHANGED <<osArgs, batchSize, exitCode, file, wbuf, stderr, stdout,
                   batch, fileCount, wg, spc, spi, ioFailed>>
    /\ UNCHANGED <<chanVars, walkVars>>

\* The two summary lines of main.go:143-144.
Summary(count) ==
    << "Done! Processed " \o Itoa(count) \o " files.",
       "CSV file created: file_paths.csv" >>

\* Report without the test of scanErr.
Report_IgnoreScanErr ==
    /\ Running /\ mpc = "report"
    /\ stdout' = stdout \o Summary(fileCount)
    /\ mpc' = "return"
    /\ UNCHANGED <<stderr, exitCode>>
    /\ UNCHANGED <<osArgs, batchSize, file, wbuf, batch, fileCount, wg, ioFailed>>
    /\ UNCHANGED <<chanVars, spinVars, walkVars>>

\* main.go:138-144: the traversal error, or the summary.
Report ==
    /\ Running /\ mpc = "report"
    /\ IF scanErr # Nil
       THEN Fail("Error walking directory: " \o scanErr) /\ UNCHANGED stdout
       ELSE /\ stdout' = stdout \o Summary(fileCount)
            /\ mpc' = "return"
            /\ UNCHANGED <<stderr, exitCode>>
    /\ UNCHANGED <<osArgs, batchSize, file, wbuf, batch, fileCount, wg, ioFailed>>
    /\ UNCHANGED <<chanVars, spinVars, walkVars>>

\* MainReturn without the deferred writer.Flush().
MainReturn_NoFlush ==
    /\ Running /\ mpc = "return"
    /\ wbuf' = <<>>
    /\ exitCode' = 0
    /\ mpc' = "exited"
    /\ UNCHANGED <<osArgs, batchSize, stderr, stdout, batch, fileCount, wg, file,
                   ioFailed>>
    /\ UNCHANGED <<chanVars, spinVars, walkVars>>

\* main.go:51 and 54: main returns; the deferred writer.Flush() writes what
\* is still buffered (its error is not looked at), the file is closed and
\* the process exits with code 0.
MainReturn ==
    /\ Running /\ mpc = "return"
    /\ \E ok \in BOOLEAN :
         IF ok \/ wbuf = <<>>
         THEN file' = file \o wbuf /\ UNCHANGED ioFailed
         ELSE UNCHANGED file /\ ioFailed' = "Flush"
    /\ wbuf' = <<>>
    /\ exitCode' = 0
    /\ mpc' = "exited"
    /\ UNCHANGED <<osArgs, batchSize, stderr, stdout, batch, fileCount, wg>>
    /\ UNCHANGED <<chanVars, spinVars, walkVars>>

\* ------------------------------------------------------------ specification
MainNext ==
    \/ CheckArgs \/ StatPath \/ CreateFile \/ WriteHeader \/ StartGoroutines
    \/ Receive \/ EndOfStream \/ WriteBatch \/ FlushBatch \/ AddCount
    \/ FinalWrite \/ FinalFlush \/ FinalAdd \/ StopSpinner \/ WaitSpinner \/ Report \/ MainReturn

ProducerNext == VisitDir \/ VisitFile \/ VisitErr \/ WalkDone \/ CloseSink

SpinnerNext == SpinnerTick \/ SpinnerWake \/ SpinnerStop \/ SpinnerReturn

Next == MainNext \/ ProducerNext \/ SpinnerNext

Spec == Init /\ [][Next]_vars

\* The Go scheduler runs every goroutine that can take a step.
FairSpec ==
    /\ Spec
    /\ WF_vars(MainNext)
    /\ WF_vars(ProducerNext)
    /\ WF_vars(SpinnerNext)

TypeOK ==
    /\ exitCode \in {0 - 1, 0, 1}
    /\ batchSize \in Nat \ {0}
    /\ fileCount \in Nat
    /\ wg \in {0, 1}
    /\ closed \in BOOLEAN
    /\ Len(pathChan) <= SinkCap
    /\ spi \in 0..MaxTicks
    /\ ti \in 1..(MaxEntries + 1)

\* -------------------------------------------------------------- properties
\* The goroutines have been started (main.go:71 and 91).
Started == tpc # "idle"

\* The records of a sequence of paths.
Records(paths) == [i \in 1..Len(paths) |-> Record(paths[i])]

\* The paths of a sequence of records.
PathsOf(rows) == [i \in 1..Len(rows) |-> rows[i][1]]

IsPrefix(s, t) == Len(s) <= Len(t) /\ s = Prefix(t, Len(s))

\* Every non-directory entry of the tree walked.
AllFiles == FilePaths(walk, Len(walk))

\* The walk meets an entry whose callback gets an error.
WalkFails == FirstErr(walk) <= Len(walk)

\* The paths the walk sends before it ends or aborts.
WalkedFiles == FilePaths(walk, FirstErr(walk) - 1)

\* The process has exited with code 1 after reporting the traversal error.
WalkFailureExit ==
    /\ exitCode = 1
    /\ scanErr # Nil
    /\ stderr # <<>>
    /\ Last(stderr) = "Error walking directory: " \o scanErr

\* C1: when the program exits with code 0 (the walk reported no error), the
\* CSV has as many data rows as the tree has non-directory entries, and every
\* such entry's path is the path of exactly one data row.
C1_RowsEqualFiles ==
    exitCode = 0 =>
        /\ ~WalkFails
        /\ Len(DataRows(file)) = Len(AllFiles)
        /\ \A i \in 1..Len(AllFiles) :
             Cardinality({j \in 1..Len(DataRows(file)) :
                            DataRows(file)[j][1] = AllFiles[i]}) = 1

\* A run that ended with code 0 after a full batch and a final partial batch.
C1_Witness ==
    /\ exitCode = 0
    /\ batchSize = 2
    /\ Len(AllFiles) = 3
    /\ Len(DataRows(file)) = 3

\* C2: once the goroutines run, the paths of the data rows on disk are, in
\* order, a prefix of the paths sent on pathChan, each row being the record of
\* its path.
C2_RowsPrefixOfPushed ==
    Started =>
        /\ IsPrefix(PathsOf(DataRows(file)), pushed)
        /\ DataRows(file) = Records(PathsOf(DataRows(file)))

\* Two rows are on disk while the producer is still walking.
C2_Witness ==
    /\ Running
    /\ tpc = "walk"
    /\ Len(DataRows(file)) = 2
    /\ Len(pushed) = 3

\* The CSV a run ends with when no write fails, as a function of the walk
\* alone: the header and one record per path sent, in order.  When the walk
\* fails before any path is sent nothing is ever flushed: os.Exit skips the
\* deferred Flush.
ExpectedCsv(w) ==
    LET paths == FilePaths(w, FirstErr(w) - 1)
    IN  IF FirstErr(w) <= Len(w) /\ paths = <<>>
        THEN <<>>
        ELSE <<Header>> \o Records(paths)

\* C3: a run that ends without a failed write leaves a CSV that depends on
\* the walk only, so it is the same for every batch_size.
C3_OutputIndependentOfBatchSize ==
    (Started /\ ~Running /\ ioFailed = NoFailure) => file = ExpectedCsv(walk)

\* A finished run whose batch_size is smaller than the number of files and
\* does not divide it.
C3_Witness ==
    /\ Started /\ ~Running /\ ioFailed = NoFailure
    /\ batchSize = 2
    /\ Len(DataRows(file)) = 3

\* C4 as stated: whenever the spinner can load fileCount, the value equals
\* the number of data rows flushed to the file.
C4_CountEqualsFlushed ==
    (Started /\ Running /\ spc = "select") => fileCount = Len(DataRows(file))

\* The batch writer is inside a WriteAll, or between a WriteAll and the
\* AddInt64 that counts it.
InFlight == mpc \in {"flush", "add", "finalflush", "finaladd"}

\* C4 amended: a load of fileCount never sees more than the rows flushed, so
\* never a record twice nor a record not yet flushed.  It sees exactly the
\* rows flushed except while a batch is being written and until its AddInt64,
\* where it sees at most that batch's records less, and exactly that batch's
\* records less once the WriteAll has returned.
C4_CountLagsFlushedByOneBatch ==
    (Started /\ Running) =>
        /\ fileCount <= Len(DataRows(file))
        /\ Len(DataRows(file)) - fileCount <= Len(batch)
        /\ ~InFlight => fileCount = Len(DataRows(file))
        /\ mpc \in {"add", "finaladd"} =>
               fileCount = Len(DataRows(file)) - Len(batch)

\* The spinner can load the counter after a batch of two was flushed and
\* before it is counted.
C4_Witness ==
    /\ Started /\ Running /\ spc = "select"
    /\ mpc = "add"
    /\ Len(batch) = 2
    /\ fileCount = 0
    /\ Len(DataRows(file)) = 2

\* The consumer has left its `for path := range pathChan` loop, or the
\* process has exited.
LoopEnded ==
    mpc \in {"finalwrite", "finalflush", "finaladd", "stop", "sending", "wait",
             "report", "return", "exited"}

\* C5: the producer never ends without having closed pathChan; while the
\* process lives, a started walk leads to the closed channel, and a consumer
\* waiting in its receive leads to the end of its loop, whether the walk ends
\* with or without an error.
C5_SinkClosedLoopEnds ==
    /\ [](tpc = "done" => closed)
    /\ (tpc = "walk") ~> (closed \/ ~Running)
    /\ (mpc = "recv") ~> LoopEnded

\* The consumer has seen the end of the stream of a walk that failed.
C5_Witness ==
    /\ closed
    /\ scanErr # Nil
    /\ pathChan = <<>>
    /\ mpc = "stop"
    /\ pushed # <<>>

\* A step that leaves a set scanErr and the paths sent as they are.
ScanErrSetOnce == scanErr # Nil => (scanErr' = scanErr /\ pushed' = pushed)

\* C6: the callback is never called past the first entry with an error, so
\* no path beyond it is sent; once the walk has returned, scanErr is that
\* first error, exactly the paths before it have been sent, and the producer
\* ends with pathChan closed.  scanErr, once set, does not change, and
\* nothing is sent after it is set.
C6_AbortOnFirstError ==
    /\ [](Started =>
            /\ ti <= FirstErr(walk)
            /\ IsPrefix(pushed, WalkedFiles)
            /\ (scanErr # Nil => WalkFails /\ scanErr = ErrAt(FirstErr(walk)))
            /\ (WalkFails /\ tpc \in {"close", "done"}) =>
                   scanErr = ErrAt(FirstErr(walk)) /\ pushed = WalkedFiles
            /\ tpc = "done" => closed)
    /\ [][ScanErrSetOnce]_vars

\* A walk aborted by an error with a path sent before it and a file after it.
C6_Witness ==
    /\ scanErr # Nil
    /\ closed
    /\ pushed # <<>>
    /\ Len(AllFiles) > Len(pushed)

\* C7: when the process exits with code 1 for the traversal error, pathChan
\* is closed and empty and the data rows on disk are the records of every
\* path sent before the error; a run whose walk fails never prints the
\* summary, and ends, when no write fails, with that exit.
C7_WalkErrorAfterDrain ==
    /\ WalkFailureExit =>
           /\ closed /\ pathChan = <<>>
           /\ pushed = WalkedFiles
           /\ DataRows(file) = Records(pushed)
           /\ stdout = <<>>
    /\ (Started /\ WalkFails) => stdout = <<>>
    /\ (Started /\ WalkFails /\ ~Running /\ ioFailed = NoFailure) => WalkFailureExit

\* A traversal error reported after two paths went out in a final batch.
C7_Witness ==
    /\ WalkFailureExit
    /\ batchSize = defaultBatchSize
    /\ Len(DataRows(file)) = 2

\* The producer waits in its send on entry i: the buffer is full.
Blocked(i) ==
    /\ Running /\ tpc = "walk"
    /\ ti = i /\ i <= Len(walk) /\ walk[i] = "file"
    /\ Len(pathChan) = SinkCap

\* A step taken while the producer waits on the full buffer moves it nowhere.
BlockedStays ==
    (\E i \in 1..MaxEntries : Blocked(i)) => (ti' = ti /\ pushed' = pushed)

\* C8: pathChan never holds more than its capacity; every non-directory entry
\* the walk has passed has been sent, none skipped; a producer waiting on the
\* full buffer stays at its entry, and while the process lives that entry's
\* path gets sent.
C8_BackpressureNoDrop ==
    /\ [](Len(pathChan) <= SinkCap)
    /\ [](Started => pushed = FilePaths(walk, ti - 1))
    /\ [][BlockedStays]_vars
    /\ \A i \in 1..MaxEntries :
          Blocked(i) ~> (~Running \/ \E j \in 1..Len(pushed) : pushed[j] = PathAt(i))

\* The producer waits on the full buffer.
C8_Witness == \E i \in 1..MaxEntries : Blocked(i)

\* The traversal error or the summary has been printed.
FinalResultPrinted == stdout # <<>> \/ WalkFailureExit

\* A step that, with the spinner stopped, leaves the progress line alone or
\* clears it, and leaves a cleared line cleared.
NoRenderAfterStop ==
    spc \in {"exiting", "returned"} =>
        /\ (display' = display \/ display' = Cleared)
        /\ (display = Cleared => display' = Cleared)

FailingWriteCountsNothing ==
    (ioFailed = NoFailure /\ ioFailed' = "WriteAll") =>
        (fileCount' = fileCount /\ pathChan' = pathChan /\ batch' = batch)

\* C10: a failed WriteAll ends the process with code 1 and the write error
\* on standard error; the failing step leaves fileCount, pathChan and the
\* batch as they are, no step follows it, and the summary is not printed.
C10_WriteFailureIsFatal ==
    /\ [](ioFailed = "WriteAll" =>
            /\ exitCode = 1
            /\ stdout = <<>>
            /\ stderr # <<>>
            /\ Last(stderr) \in {"Error writing batch", "Error writing final batch"})
    /\ [][FailingWriteCountsNothing]_vars
    /\ [][ioFailed = "WriteAll" => UNCHANGED vars]_vars

\* The write of a second batch fails with a path still queued.
C10_Witness ==
    /\ ioFailed = "WriteAll"
    /\ exitCode = 1
    /\ fileCount > 0
    /\ pathChan # <<>>

\* The batch_size argument is given and is not the decimal form of a
\* positive integer.
BadBatchArg ==
    Len(osArgs) >= 3 /\ osArgs[3] \notin {DigitSeq(n) : n \in 1..MaxBatch}

\* The messages of the exits of main.go:18-44.
ValidationMessages ==
    {"usage", "batch_size must be a positive integer", "Error accessing path",
     "not a directory"}

\* The process has exited on a failed validation.
ValidationExit == stderr # <<>> /\ Last(stderr) \in ValidationMessages

\* Nothing has been done yet: file_paths.csv is as it was found, nothing is
\* buffered for it, and neither goroutine has been started.
NoSideEffect ==
    /\ file \in {NoFile, OldFile}
    /\ wbuf = <<>>
    /\ spc = "idle" /\ tpc = "idle" /\ wg = 0
    /\ pathChan = <<>> /\ pushed = <<>> /\ fileCount = 0
    /\ stdout = <<>>

\* C11: until the arguments and the path have passed validation nothing has
\* been done; a missing directory argument or a batch_size that is not a
\* positive integer never passes, and an exit on a failed validation has
\* code 1 and has done nothing.
C11_ValidationBeforeSideEffects ==
    /\ mpc \in {"args", "stat", "create"} => NoSideEffect
    /\ (Len(osArgs) < 2 \/ BadBatchArg) =>
           /\ NoSideEffect
           /\ mpc \in {"args", "exited"}
           /\ ~Running => (exitCode = 1 /\ ValidationExit)
    /\ ValidationExit => (exitCode = 1 /\ mpc = "exited" /\ NoSideEffect)

\* The target is not a directory: exit 1 with the old file_paths.csv intact.
C11_Witness ==
    /\ exitCode = 1
    /\ stderr = <<"not a directory">>
    /\ file = OldFile
    /\ Len(osArgs) = 3

\* The walk found no non-directory entry and no error.
EmptyTree == Started /\ ~WalkFails /\ AllFiles = <<>>

\* C12: for a tree without non-directory entries and without walk error no
\* batch is ever written and the counter stays 0; the run ends with exit
\* code 0 and the summary for 0 files, and, the deferred Flush of the header
\* not failing, with a CSV that holds the header row alone.
C12_EmptyDirectoryHeaderOnly ==
    EmptyTree =>
        /\ mpc \notin {"write", "flush", "add", "finalwrite", "finalflush", "finaladd"}
        /\ fileCount = 0 /\ batch = <<>> /\ pushed = <<>>
        /\ ioFailed # "WriteAll"
        /\ ~Running =>
               /\ exitCode = 0
               /\ stdout = Summary(0)
               /\ ioFailed = NoFailure => file = <<Header>>

\* A tree of directories only, walked to the end: exit 0, header only.
C12_Witness ==
    /\ EmptyTree
    /\ Len(walk) >= 1
    /\ exitCode = 0
    /\ file = <<Header>>
    /\ fileCount = 0

\* C13: under weak fairness of the three goroutines every run ends: the
\* process exits with code 0 or 1, whatever the arguments, the tree, the
\* batch size and the outcome of the writes.
C13_Terminates == <>(~Running /\ exitCode \in {0, 1})

\* A run that ended after more files than pathChan holds and a stopped
\* spinner.
C13_Witness ==
    /\ exitCode = 0
    /\ Len(pushed) > SinkCap
    /\ spc = "returned"

\* A step of the spinner goroutine leaves the pipeline's state alone.
SpinnerStepObservesOnly ==
    (spc # "idle" /\ (spc' # spc \/ spi' # spi \/ display' # display)) =>
        UNCHANGED <<pathChan, closed, pushed, batch, file, wbuf, fileCount,
                    scanErr, walk, ti, tpc, batchSize, exitCode, ioFailed>>

\* The exit code, the counter and the file a run ends with when no write
\* fails, as a function of the walk alone.
ExpectedOutcome(w) ==
    << IF FirstErr(w) <= Len(w) THEN 1 ELSE 0,
       Len(FilePaths(w, FirstErr(w) - 1)),
       ExpectedCsv(w) >>

\* C14: no step of the spinner changes pathChan, the batch, the file, the
\* counter or scanErr; and the outcome of a finished run in which no write
\* failed is fixed by the walk, whether the spinner rendered or not.
C14_SpinnerObservesOnly ==
    /\ [][SpinnerStepObservesOnly]_vars
    /\ []((Started /\ ~Running /\ ioFailed = NoFailure) =>
            <<exitCode, fileCount, file>> = ExpectedOutcome(walk))

\* A finished run during which the spinner rendered a progress line.
C14_Witness ==
    /\ exitCode = 0
    /\ spi >= 1
    /\ fileCount >= 2
    /\ Len(DataRows(file)) >= 2

\* C15: the batch never holds more than batchSize records, and whenever the
\* consumer is at its receive it holds fewer: a batch that reached batchSize
\* is in a write, which ends with the batch reset, before the next receive.
C15_BatchBelowBatchSize ==
    /\ Len(batch) <= batchSize
    /\ mpc = "recv" => Len(batch) < batchSize
    /\ mpc \in {"write", "flush", "add"} => Len(batch) = batchSize

\* A batch of two is full and about to be written while a path waits in
\* pathChan.
C15_Witness ==
    /\ Running
    /\ mpc = "write"
    /\ batchSize = 2
    /\ Len(batch) = 2
    /\ pathChan # <<>>

\* The main goroutine is past the final batch.
AfterFinalBatch == mpc \in {"stop", "sending", "wait", "report", "return"}

\* The steps that end the loop and the final write: the loop ends into a
\* write exactly when the paths received are not a multiple of batchSize;
\* that write's AddInt64 adds their remainder; and past it no write follows.
FinalBatchSteps ==
    /\ (mpc = "recv" /\ mpc' = "stop") => Len(pushed) % batchSize = 0
    /\ (mpc = "recv" /\ mpc' = "finalwrite") => Len(pushed) % batchSize # 0
    /\ (mpc = "finaladd" /\ mpc' = "stop") =>
           fileCount' = fileCount + (Len(pushed) % batchSize)
    /\ AfterFinalBatch =>
           /\ mpc' \in {"stop", "sending", "wait", "report", "return", "exited"}
           /\ file' = file \/ mpc = "return"

\* C16: in the final write the batch holds the remainder of the paths
\* received modulo batchSize, which is not zero, and that write puts every
\* path received on disk; the loop ends into the final write only with such
\* a remainder, the write is counted by its size, and no write follows it.
C16_FinalBatchOnce ==
    /\ [](mpc \in {"finalwrite", "finalflush", "finaladd"} =>
            /\ closed /\ pathChan = <<>>
            /\ Len(batch) = Len(pushed) % batchSize
            /\ Len(batch) > 0)
    /\ []((Started /\ Running /\ AfterFinalBatch) =>
            /\ DataRows(file) = Records(pushed)
            /\ fileCount = Len(pushed))
    /\ [][FinalBatchSteps]_vars

\* Three paths with batch_size 2: the final write of one record is done.
C16_Witness ==
    /\ mpc = "stop"
    /\ batchSize = 2
    /\ fileCount = 3
    /\ Len(batch) = 1

\* A step that changes fileCount is the main goroutine's AddInt64 after a
\* WriteAll that returned: it adds the size of the batch, whose records are
\* the last rows on disk, and moves neither the producer nor the spinner.
CountStep ==
    fileCount' # fileCount =>
        /\ mpc \in {"add", "finaladd"}
        /\ Len(batch) > 0
        /\ fileCount' = fileCount + Len(batch)
        /\ wbuf = <<>>
        /\ SubSeq(file, Len(file) - Len(batch) + 1, Len(file)) = batch
        /\ UNCHANGED <<tpc, ti, spc, spi, file>>

\* C17: fileCount never decreases, and changes only in the main goroutine's
\* AddInt64 after a completed write, by the size of the batch written.
C17_CountChangesOnlyByBatch ==
    /\ [][fileCount' >= fileCount]_vars
    /\ [][CountStep]_vars

\* The counter after the increment for a batch of two.
C17_Witness ==
    /\ Running
    /\ mpc = "recv"
    /\ batchSize = 2
    /\ fileCount = 2
    /\ batch = <<>>

\* C18: the summary, once printed, names the number of paths sent, which is
\* the number of data rows on disk, also when the process has exited with
\* code 0.
C18_SummaryCountsRows ==
    stdout # <<>> =>
        /\ stdout = Summary(Len(pushed))
        /\ Len(DataRows(file)) = Len(pushed)
        /\ fileCount = Len(pushed)
        /\ pushed = AllFiles

\* The summary for three files after exit code 0.
C18_Witness ==
    /\ exitCode = 0
    /\ stdout = Summary(3)
    /\ Len(DataRows(file)) = 3

\* The statement of C19 as written: in every state after the goroutines have
\* started, the paths sent are the rows on disk, then the batch, then the
\* paths queued.
C19_PushedIsWrittenBatchQueued ==
    Started =>
        Records(pushed) = DataRows(file) \o batch \o Records(pathChan)

\* The records of the batch that no write has put on disk: the whole batch
\* until it is handed to WriteAll, the records WriteAll has not yet flushed
\* while it runs, none once it has returned (the slice is reset after the
\* AddInt64 in the loop, and never after the final write).
Pending ==
    IF mpc \in {"recv", "write", "finalwrite"} THEN batch
    ELSE IF mpc \in {"flush", "finalflush"}
         THEN SubSeq(batch, Len(DataRows(file)) - fileCount + 1, Len(batch))
         ELSE <<>>

\* C19 amended: while the program runs, the paths sent are the rows on disk,
\* then the batch's records not yet on disk, then the paths queued; the
\* batch counts whole whenever the consumer is at a receive or about to
\* write, and the paths sent and not on disk are at most the channel's
\* capacity plus batchSize.
C19_PushedIsWrittenPendingQueued ==
    (Started /\ Running) =>
        /\ Records(pushed) = DataRows(file) \o Pending \o Records(pathChan)
        /\ mpc \in {"recv", "write", "finalwrite"} =>
               Records(pushed) = DataRows(file) \o batch \o Records(pathChan)
        /\ Len(Pending) <= batchSize
        /\ Len(pathChan) <= SinkCap
        /\ Len(pushed) - Len(DataRows(file)) <= SinkCap + batchSize

\* One row is on disk, one record is in the batch about to be written and
\* one path is queued.
C19_Witness ==
    /\ Running
    /\ mpc = "write"
    /\ Len(DataRows(file)) = 1
    /\ Len(batch) = 1
    /\ Len(pathChan) = 1
    /\ Len(pushed) = 3

\* What WalkDir returns for the tree walked.
WalkResult == IF WalkFails THEN ErrAt(FirstErr(walk)) ELSE Nil

\* A step that assigns scanErr is the producer's, taken before the close.
ScanErrWrittenBeforeClose ==
    scanErr' # scanErr => (tpc = "walk" /\ tpc' = "close" /\ ~closed /\ ~closed')

\* C20: once the range loop has ended, and so when main tests scanErr, the
\* channel is closed and empty, the producer has returned and scanErr is
\* what WalkDir returned; scanErr is assigned only before the close; and a
\* walk that failed never ends in exit code 0 or the summary.
C20_ScanErrReadAfterClose ==
    /\ []((Running /\ LoopEnded) =>
            /\ closed /\ pathChan = <<>>
            /\ tpc = "done"
            /\ scanErr = WalkResult)
    /\ [](closed => (tpc = "done" /\ scanErr = WalkResult))
    /\ [][ScanErrWrittenBeforeClose]_vars
    /\ []((exitCode = 0 \/ stdout # <<>>) => ~WalkFails)

\* main is at the test of scanErr after a walk that sent a path and failed.
C20_Witness ==
    /\ Running
    /\ mpc = "report"
    /\ scanErr # Nil
    /\ pushed # <<>>

====
